---- MODULE Spec2Model ----
(***************************************************************************)
(* teams.py: fetch a Teams meeting transcript through Microsoft Graph,     *)
(* summarise it and mail the summary.  One execution of main() is the      *)
(* record `run`; `twin` is a second execution that receives the same       *)
(* inputs and HTTP responses but whose disk behaves independently.         *)
(***************************************************************************)
EXTENDS Integers, Sequences, FiniteSets, TLC

VARIABLES run, twin

vars == <<run, twin>>

-----------------------------------------------------------------------------
(* Bounds of the model *)

\* longest text (inline content, downloaded body) the server sends
MaxLen == 2
\* longest result collection ("value") the server sends
MaxItems == 2

-----------------------------------------------------------------------------
(* Program constants *)

GRAPH_BASE == "https://graph.microsoft.com/v1.0"
GRAPH_BETA == "https://graph.microsoft.com/beta"

\* a loop that walks the primary base only
Bases_v1_only == <<GRAPH_BASE>>

\* the (base, dump_path) pairs the loop of fetch_transcript_by_id walks
Bases == <<GRAPH_BASE, GRAPH_BETA>>

dump_path(base) ==
    IF base = GRAPH_BASE THEN "graph_transcripts_v1.json"
    ELSE "graph_transcripts_beta.json"

LOOKUP_PATH == "graph_meeting_lookup.json"

\* the candidates with text/vtt tried first
accept_candidates_vtt_first ==
    << "text/vtt", "text/plain", "application/vnd.ms-graph.vtt",
       "application/octet-stream" >>

\* the candidates without the generic octet stream
accept_candidates_short ==
    << "text/plain", "text/vtt", "application/vnd.ms-graph.vtt" >>

accept_candidates ==
    << "text/plain", "text/vtt", "application/vnd.ms-graph.vtt",
       "application/octet-stream" >>

\* f"graph_transcript_content_{label.split('/')[-1].replace('.', '_')}.txt"
out_name(label) ==
    IF label = GRAPH_BASE THEN "graph_transcript_content_v1_0.txt"
    ELSE "graph_transcript_content_beta.txt"

Paths ==
    { LOOKUP_PATH, dump_path(GRAPH_BASE), dump_path(GRAPH_BETA),
      out_name(GRAPH_BASE), out_name(GRAPH_BETA) }

\* statuses send_email accepts
MAIL_OK == {200, 202}

-----------------------------------------------------------------------------
(* Text: a str is a sequence of characters, bytes a sequence of bytes *)

SeqUpTo(S, n) == UNION { [1..k -> S] : k \in 0..n }

Whitespace == {" "}
Chars == {"a", " "}
\* "xFF" is a byte that is not valid UTF-8
Bytes == Chars \cup {"xFF"}

\* inline contents
Texts == SeqUpTo(Chars, MaxLen)

\* bodies of the content stream: empty, plain, padded, blank, undecodable
ByteStrings ==
    { <<>>, <<"a">>, <<" ", "a", " ">>, <<" ", " ">>, <<"xFF">>,
      <<" ", "xFF", "a">> }

RECURSIVE lstrip(_)
lstrip(s) ==
    IF Len(s) > 0 /\ Head(s) \in Whitespace THEN lstrip(Tail(s)) ELSE s

RECURSIVE rstrip(_)
rstrip(s) ==
    IF Len(s) > 0 /\ s[Len(s)] \in Whitespace
    THEN rstrip(SubSeq(s, 1, Len(s) - 1))
    ELSE s

\* str.lstrip() where str.strip() was meant
strip_leading(s) == lstrip(s)

\* str.strip()
strip(s) == rstrip(lstrip(s))

\* bytes.decode("utf-8", errors="replace")
decode(b) == [i \in 1..Len(b) |-> IF b[i] = "xFF" THEN "uFFFD" ELSE b[i]]

\* an optional value: None, or a value v
None == [some |-> FALSE, v |-> <<>>]
Some(x) == [some |-> TRUE, v |-> x]

-----------------------------------------------------------------------------
(* What the servers can answer *)

Statuses == {200, 404, 500}

\* a response body: not JSON at all, a JSON array, or a JSON object that may
\* hold a "value" collection
Body(kind, has, value) == [kind |-> kind, has_value |-> has, value |-> value]

NonJson == Body("nonjson", FALSE, <<>>)
JsonArray == Body("array", FALSE, <<>>)
NoValue == Body("object", FALSE, <<>>)
Collection(items) == Body("object", TRUE, items)

MeetingIds == {"MEETING_1", "MEETING_2"}

\* the meeting that follows `first` in a longer collection
OtherMeeting(first) == CHOOSE m \in MeetingIds : m # first

\* collections of k meetings whose first element is `first`
MeetingValues ==
    { [i \in 1..k |-> [id |-> IF i = 1 THEN first ELSE OtherMeeting(first)]] :
        k \in 1..MaxItems, first \in MeetingIds }

LookupBodies ==
    {NonJson, JsonArray, NoValue, Collection(<<>>)}
        \cup { Collection(v) : v \in MeetingValues }

Urls == {"", "https://content/1"}

Descriptor(c, u) == [content |-> c, transcriptContentUrl |-> u]

Descriptors ==
    { Descriptor(c, u) : c \in {None} \cup { Some(t) : t \in Texts }, u \in Urls }

\* what follows the first descriptor in a longer collection
Filler == Descriptor(Some(<<"a", "a">>), "https://content/2")

TranscriptValues ==
    { [i \in 1..k |-> IF i = 1 THEN first ELSE Filler] :
        k \in 1..MaxItems, first \in Descriptors }

ListingBodies ==
    {NonJson, JsonArray, NoValue, Collection(<<>>)}
        \cup { Collection(v) : v \in TranscriptValues }

\* a failing listing answers with an error body, or (a misbehaving server)
\* with a collection all the same
ErrorListingBodies ==
    { NonJson, NoValue,
      Collection(<<Descriptor(Some(<<"a">>), "https://content/1")>>) }

JsonResponse(status, body) ==
    [exc |-> FALSE, status |-> status, body |-> body]

\* requests.get raised (timeout, connection error): there is no response
JsonTransportError == [exc |-> TRUE, status |-> 0, body |-> NonJson]

LookupResponses ==
    { JsonResponse(s, b) : s \in Statuses, b \in LookupBodies }
        \cup {JsonTransportError}

ListingResponses ==
    { JsonResponse(200, b) : b \in ListingBodies }
        \cup { JsonResponse(s, b) : s \in Statuses \ {200}, b \in ErrorListingBodies }
        \cup {JsonTransportError}

StreamResponse(status, content) ==
    [exc |-> FALSE, status |-> status, content |-> content]

StreamTransportError == [exc |-> TRUE, status |-> 0, content |-> None]

NoStream == [exc |-> FALSE, status |-> 0, content |-> None]

StreamResponses ==
    { StreamResponse(200, c) : c \in {None} \cup { Some(b) : b \in ByteStrings } }
        \cup { StreamResponse(s, Some(<<"a">>)) : s \in Statuses \ {200} }
        \cup {StreamTransportError}

MailStatuses == {200, 202, 400}

\* what the disk does to one write: it succeeds, or open()/write() raises
WriteOutcomes == {"ok", "fails"}

-----------------------------------------------------------------------------
(* The disk *)

\* a file holds what one write put there: the JSON payload parsed from the
\* response to the n-th request of the run, or the text decoded from it
File(state, of) == [state |-> state, of |-> of]

Absent == File("absent", 0)

\* the files, and the writes attempted on them so far
NoDisk == [files |-> [p \in Paths |-> Absent], log |-> <<>>]

\* with open(path, "w", encoding="utf-8") as f: ...  under disk outcome w
Write(disk, path, file, w) ==
    [ files |-> IF w = "ok" THEN [disk.files EXCEPT ![path] = file]
                ELSE disk.files,
      log |-> Append(disk.log, [path |-> path, of |-> file.of, ok |-> w = "ok"]) ]

\* _save_json that writes only under debug (here off)
save_json_skipped(disk, payload, path, w) == [disk |-> disk, raised |-> FALSE]

\* _save_json without its try/except: a failing write raises
save_json_unguarded(disk, payload, path, w) ==
    [disk |-> Write(disk, path, File("json", payload), w), raised |-> w # "ok"]

\* _save_json: the write runs inside try/except Exception, which logs a
\* warning; nothing is raised to the caller
save_json(disk, payload, path, w) ==
    [disk |-> Write(disk, path, File("json", payload), w), raised |-> FALSE]

\* the inner try/except around the copy of the transcript content
save_content(disk, text, path, w) ==
    [disk |-> Write(disk, path, File("text", text), w), raised |-> FALSE]

-----------------------------------------------------------------------------
(* One execution of main() *)

NoError == [kind |-> "none", status |-> 0, text |-> <<>>]
\* f"{r.status_code} {r.text}"
HttpError(status, text) == [kind |-> "http", status |-> status, text |-> text]
\* str(e) of a transport exception
ExcError == [kind |-> "exception", status |-> 0, text |-> <<>>]

Request(ep, base, arg, accept, token) ==
    [ep |-> ep, base |-> base, arg |-> arg, accept |-> accept, token |-> token]

MEETING_LINK == "https://teams.microsoft.com/l/meetup-join/abc123"

\* no response held
NoJsonResponse == [exc |-> FALSE, status |-> 0, body |-> NonJson]

Start ==
    [ pc |-> "config",          \* the statement main() executes next
      error |-> "",             \* the exception that ended the run, if any
      sent |-> FALSE,           \* main() reached "Done. Email submitted"
      steps |-> <<>>,           \* the steps of main() entered so far
      reqs |-> <<>>,            \* the HTTP requests issued so far
      client_id |-> "",
      tenant_id |-> "",
      token |-> "",
      lookup |-> NoJsonResponse, \* r of resolve_meeting_id_from_link
      meeting_id |-> "",
      transcript |-> None,
      summary_html |-> "",
      b |-> 0,                  \* index of the base the loop is at
      tried |-> <<>>,           \* tried: (base, status_code) pairs
      got |-> <<>>,             \* the listing responses received, as tried
      label |-> "",             \* _download_content_stream's label
      stream_url |-> "",
      acc |-> 0,                \* index of the accept candidate
      r |-> NoStream,           \* r of _download_content_stream
      last_err |-> NoError,
      disk |-> NoDisk ]

\* an exception leaves main(): the run is over
Raise(st, kind) == [st EXCEPT !.pc = "done", !.error = kind]

\* r.json(), or {"_non_json_response": r.text} when that raises
json(body) ==
    IF body.kind = "nonjson" THEN [body EXCEPT !.kind = "wrapped"] ELSE body

\* isinstance(data, dict)
isdict(data) == data.kind \in {"object", "wrapped"}

\* the configuration check with `and` for `or`
check_config_and(st, env) ==
    LET s1 == [st EXCEPT !.steps = Append(@, "config"),
                         !.client_id = env.client_id,
                         !.tenant_id = env.tenant_id] IN
    IF env.client_id = "" /\ env.tenant_id = ""
    THEN Raise(s1, "MissingAzureConfig")
    ELSE [s1 EXCEPT !.pc = "token"]

\* main(), lines 235-238: the Azure configuration of the environment
check_config(st, env) ==
    LET s1 == [st EXCEPT !.steps = Append(@, "config"),
                         !.client_id = env.client_id,
                         !.tenant_id = env.tenant_id] IN
    IF env.client_id = "" \/ env.tenant_id = ""
    THEN Raise(s1, "MissingAzureConfig")
    ELSE [s1 EXCEPT !.pc = "token"]

ConfigEnvs == [client_id : {"", "cid"}, tenant_id : {"", "tid"}]

\* acquire_user_token_device_code: the cached account first, then the
\* device-code flow; msal's answers are the input
acquire_user_token_device_code(st, msal) ==
    LET s1 == [st EXCEPT !.steps = Append(@, "token")] IN
    IF msal.accounts /\ msal.silent = "token"
    THEN [s1 EXCEPT !.token = "access_token", !.pc = "resolve"]
    ELSE IF ~msal.user_code
    THEN Raise(s1, "DeviceFlowError")
    ELSE IF ~msal.device_token
    THEN Raise(s1, "TokenError")
    ELSE [s1 EXCEPT !.token = "access_token", !.pc = "resolve"]

MsalAnswers ==
    [ accounts : BOOLEAN, silent : {"none", "no_token", "token"},
      user_code : BOOLEAN, device_token : BOOLEAN ]

\* data["value"][-1]
last_item(value) == value[Len(value)]

\* data["value"][0]
first(value) == value[1]

\* resolve_meeting_id_from_link
resolve_meeting_id_from_link(st, resp, w) ==
    LET s1 == [st EXCEPT
                 !.steps = Append(@, "resolve"),
                 !.reqs = Append(@, Request("lookup", GRAPH_BASE, MEETING_LINK,
                                            "", st.token))]
        data == json(resp.body)
        saved == save_json(s1.disk, Len(s1.reqs), LOOKUP_PATH, w)
        s2 == [s1 EXCEPT !.lookup = resp, !.disk = saved.disk]
    IN  IF resp.exc THEN Raise(s1, "TransportError")
        ELSE IF saved.raised THEN Raise(s2, "OSError")
        ELSE IF resp.status # 200 THEN Raise(s2, "ResolutionError")
        ELSE IF ~data.has_value \/ Len(data.value) = 0
        THEN Raise(s2, "ResolutionError")
        ELSE [s2 EXCEPT !.meeting_id = first(data.value).id, !.pc = "list",
                        !.b = 1]

\* line 129 without the status test
listing_ok_any_status(resp, data) ==
    isdict(data) /\ data.has_value /\ Len(data.value) > 0

\* line 129: r.status_code == 200 and isinstance(data, dict) and data.get("value")
listing_ok(resp, data) ==
    resp.status = 200 /\ isdict(data) /\ data.has_value /\ Len(data.value) > 0

\* tried that records the failing statuses only
record_failed_attempt(tried, base, status) ==
    IF status = 200 THEN tried ELSE Append(tried, <<base, status>>)

\* line 122: tried.append((base, r.status_code))
record_attempt(tried, base, status) == Append(tried, <<base, status>>)

\* lines 132-133: the first descriptor's inline text, when truthy
usable_inline(t0) == t0.content.some /\ Len(t0.content.v) > 0

\* fetch_transcript_by_id, one iteration of the loop over the bases: the
\* listing request, tried, the dump, and what the first descriptor offers
list_transcripts(st, resp, w) ==
    LET base == Bases[st.b]
        s1 == [st EXCEPT
                 !.steps = IF st.b = 1 THEN Append(@, "fetch") ELSE @,
                 !.lookup = NoJsonResponse,
                 !.reqs = Append(@, Request("transcripts", base, st.meeting_id,
                                            "", st.token))]
        data == json(resp.body)
        saved == save_json(s1.disk, Len(s1.reqs), dump_path(base), w)
        s2 == [s1 EXCEPT
                 !.tried = record_attempt(@, base, resp.status),
                 !.got = Append(@, resp),
                 !.disk = saved.disk]
        t0 == first(data.value)
    IN  IF resp.exc THEN Raise(s1, "TransportError")
        ELSE IF saved.raised THEN Raise(s2, "OSError")
        ELSE IF listing_ok(resp, data) /\ usable_inline(t0)
        THEN [s2 EXCEPT !.transcript = Some(strip(t0.content.v)),
                        !.pc = "summarize"]
        ELSE IF listing_ok(resp, data) /\ t0.transcriptContentUrl # ""
        THEN [s2 EXCEPT !.pc = "download", !.label = base,
                        !.stream_url = t0.transcriptContentUrl, !.acc = 1,
                        !.last_err = NoError]
        ELSE IF st.b < Len(Bases)
        THEN [s2 EXCEPT !.b = st.b + 1]
        ELSE Raise(s2, "NoTranscriptError")

\* lines 110 and 112: what an attempt that did not return leaves in last_err
attempt_error(resp) ==
    IF resp.exc THEN ExcError
    ELSE HttpError(resp.status, decode(resp.content.v))

\* _download_content_stream, one iteration of the loop over the accept
\* candidates; after the last one the RuntimeError carrying last_err
download_content_stream(st, resp, w) ==
    LET accept == accept_candidates[st.acc]
        s1 == [st EXCEPT
                 !.reqs = Append(@, Request("content", st.label, st.stream_url,
                                            accept, st.token)),
                 !.r = resp]
        text == strip(decode(resp.content.v))
        saved == save_content(s1.disk, Len(s1.reqs), out_name(st.label), w)
        failed(err, disk) ==
            LET s2 == [s1 EXCEPT !.last_err = err, !.disk = disk] IN
            IF st.acc < Len(accept_candidates)
            THEN [s2 EXCEPT !.acc = st.acc + 1]
            ELSE Raise(s2, "DownloadError")
    IN  IF ~resp.exc /\ resp.status = 200 /\ resp.content.some
        THEN IF saved.raised THEN failed(ExcError, saved.disk)
             ELSE [s1 EXCEPT !.disk = saved.disk, !.transcript = Some(text),
                             !.pc = "summarize"]
        ELSE failed(attempt_error(resp), s1.disk)

\* fetch_transcript_by_id has returned to main(): its locals are gone
Returned(st) ==
    [st EXCEPT !.b = 0, !.tried = <<>>, !.got = <<>>, !.label = "",
               !.stream_url = "", !.acc = 0, !.r = NoStream,
               !.last_err = NoError]

\* summarize_text_with_openai: the key of the environment, then the
\* completion request
summarize_text_with_openai(st, openai) ==
    LET s1 == [Returned(st) EXCEPT !.steps = Append(@, "summarize")] IN
    IF ~openai.api_key THEN Raise(s1, "MissingOpenAIKey")
    ELSE IF openai.reply = "" THEN Raise(s1, "OpenAIError")
    ELSE [s1 EXCEPT !.summary_html = openai.reply, !.pc = "send"]

\* reply "" stands for the client raising
OpenAIAnswers == [api_key : BOOLEAN, reply : {"", "<h2>Topic</h2>"}]

\* send_email, and the last line of main()
send_email(st, resp) ==
    LET s1 == [st EXCEPT
                 !.steps = Append(@, "send"),
                 !.reqs = Append(@, Request("sendMail", GRAPH_BASE,
                                            st.summary_html, "", st.token))]
    IN  IF resp.exc THEN Raise(s1, "TransportError")
        ELSE IF resp.status \notin MAIL_OK THEN Raise(s1, "SendMailError")
        ELSE [s1 EXCEPT !.pc = "done", !.sent = TRUE]

MailResponses ==
    { JsonResponse(s, NoValue) : s \in MailStatuses } \cup {JsonTransportError}

-----------------------------------------------------------------------------
(* The two executions *)

\* the twin's disk is not looked at
Untracked(st) == [st EXCEPT !.disk = NoDisk]

Init ==
    /\ run = Start
    /\ twin = Start

CheckConfig ==
    /\ run.pc = "config"
    /\ \E env \in ConfigEnvs :
         /\ run' = check_config(run, env)
         /\ twin' = IF twin.pc = "config" THEN check_config(twin, env) ELSE twin

AcquireToken ==
    /\ run.pc = "token"
    /\ \E msal \in MsalAnswers :
         /\ run' = acquire_user_token_device_code(run, msal)
         /\ twin' = IF twin.pc = "token"
                    THEN acquire_user_token_device_code(twin, msal) ELSE twin

ResolveMeetingId ==
    /\ run.pc = "resolve"
    /\ \E resp \in LookupResponses, w \in WriteOutcomes, w2 \in WriteOutcomes :
         /\ run' = resolve_meeting_id_from_link(run, resp, w)
         /\ twin' = IF twin.pc = "resolve"
                    THEN Untracked(resolve_meeting_id_from_link(twin, resp, w2))
                    ELSE twin

ListTranscripts ==
    /\ run.pc = "list"
    /\ \E resp \in ListingResponses, w \in WriteOutcomes, w2 \in WriteOutcomes :
         /\ run' = list_transcripts(run, resp, w)
         /\ twin' = IF twin.pc = "list"
                    THEN Untracked(list_transcripts(twin, resp, w2))
                    ELSE twin

DownloadContentStream ==
    /\ run.pc = "download"
    /\ \E resp \in StreamResponses, w \in WriteOutcomes, w2 \in WriteOutcomes :
         /\ run' = download_content_stream(run, resp, w)
         /\ twin' = IF twin.pc = "download"
                    THEN Untracked(download_content_stream(twin, resp, w2))
                    ELSE twin

Summarize ==
    /\ run.pc = "summarize"
    /\ \E openai \in OpenAIAnswers :
         /\ run' = summarize_text_with_openai(run, openai)
         /\ twin' = IF twin.pc = "summarize"
                    THEN summarize_text_with_openai(twin, openai) ELSE twin

SendEmail ==
    /\ run.pc = "send"
    /\ \E resp \in MailResponses :
         /\ run' = send_email(run, resp)
         /\ twin' = IF twin.pc = "send" THEN send_email(twin, resp) ELSE twin

Next ==
    \/ CheckConfig
    \/ AcquireToken
    \/ ResolveMeetingId
    \/ ListTranscripts
    \/ DownloadContentStream
    \/ Summarize
    \/ SendEmail

Spec == Init /\ [][Next]_vars

-----------------------------------------------------------------------------
(* Vocabulary of the properties *)

IsListingReq(q) == q.ep = "transcripts"
IsContentReq(q) == q.ep = "content"
IsMailReq(q) == q.ep = "sendMail"
IsDump(e) == e.path \in {"graph_transcripts_v1.json", "graph_transcripts_beta.json"}

ListingReqs == SelectSeq(run.reqs, IsListingReq)
ContentReqs == SelectSeq(run.reqs, IsContentReq)
MailReqs == SelectSeq(run.reqs, IsMailReq)

\* fetch_transcript_by_id has been called and main() has not moved past it
FetchLive == Len(run.steps) > 0 /\ run.steps[Len(run.steps)] = "fetch"
\* ... and it has returned or raised
FetchEnded == FetchLive /\ run.pc \in {"summarize", "done"}

\* a listing response whose body is an object with a non-empty collection
HasItems(resp) ==
    resp.body.kind = "object" /\ resp.body.has_value /\ Len(resp.body.value) > 0

\* a listing response that yields no usable content
NoUsableContent(resp) ==
    \/ resp.status # 200
    \/ ~HasItems(resp)
    \/ LET d == resp.body.value[1] IN
         /\ ~d.content.some \/ Len(d.content.v) = 0
         /\ d.transcriptContentUrl = ""

\* a status-200 listing response whose first descriptor has inline content
HasInline(resp) ==
    /\ resp.status = 200
    /\ HasItems(resp)
    /\ resp.body.value[1].content.some
    /\ Len(resp.body.value[1].content.v) > 0

\* t is s without its leading and trailing whitespace
IsTrimOf(t, s) ==
    \E i \in 0..Len(s), j \in 0..Len(s) :
        /\ i + j <= Len(s)
        /\ t = SubSeq(s, i + 1, Len(s) - j)
        /\ \A k \in 1..i : s[k] \in Whitespace
        /\ \A k \in (Len(s) - j + 1)..Len(s) : s[k] \in Whitespace
        /\ Len(t) > 0 => t[1] \notin Whitespace /\ t[Len(t)] \notin Whitespace

\* t is b read as UTF-8, each undecodable byte replaced by U+FFFD
IsDecodeOf(t, b) ==
    /\ Len(t) = Len(b)
    /\ \A k \in 1..Len(b) : t[k] = IF b[k] \in Chars THEN b[k] ELSE "uFFFD"

AcceptOrder ==
    << "text/plain", "text/vtt", "application/vnd.ms-graph.vtt",
       "application/octet-stream" >>

\* a content response with status 200 and a body
StreamSuccess(resp) == ~resp.exc /\ resp.status = 200 /\ resp.content.some

MainOrder == <<"config", "token", "resolve", "fetch", "summarize", "send">>

IsPrefix(s, t) == Len(s) <= Len(t) /\ s = SubSeq(t, 1, Len(s))

\* what an execution shows to its caller and to the network
Outcome(st) ==
    [ pc |-> st.pc, error |-> st.error, sent |-> st.sent, reqs |-> st.reqs,
      meeting_id |-> st.meeting_id, transcript |-> st.transcript,
      summary_html |-> st.summary_html, tried |-> st.tried,
      last_err |-> st.last_err ]

-----------------------------------------------------------------------------
(* C1 *)

\* C1: the primary (v1.0) listing is requested first, at most the two
\* listings are requested, and the secondary (beta) listing is requested if
\* and only if the primary response yielded no usable content: non-200, or
\* collection absent or empty, or a first descriptor with neither non-empty
\* inline content nor a content URL.
C1_SecondaryIffPrimaryUnusable ==
    FetchLive =>
        /\ Len(ListingReqs) \in 1..2
        /\ ListingReqs[1].base = "https://graph.microsoft.com/v1.0"
        /\ Len(ListingReqs) = 2 =>
             /\ ListingReqs[2].base = "https://graph.microsoft.com/beta"
             /\ Len(run.got) >= 1
             /\ NoUsableContent(run.got[1])
        /\ (FetchEnded /\ Len(run.got) >= 1 /\ NoUsableContent(run.got[1])) =>
             Len(ListingReqs) = 2

\* a 200 response with an empty collection on the primary, then content
\* from the secondary
C1_Witness ==
    /\ FetchEnded
    /\ Len(ListingReqs) = 2
    /\ Len(run.got) = 2
    /\ run.got[1].status = 200
    /\ run.got[1].body = Collection(<<>>)
    /\ run.transcript.some

-----------------------------------------------------------------------------
(* C2 *)

\* C2: a status-200 listing response whose first descriptor has non-empty
\* inline content makes fetch_transcript_by_id return that content trimmed,
\* with no content-download request and no listing request to a later base.
C2_InlineReturnedTrimmed ==
    FetchLive =>
        \A i \in 1..Len(run.got) :
            HasInline(run.got[i]) =>
                /\ i = Len(run.got)
                /\ run.pc = "summarize"
                /\ run.error = ""
                /\ run.transcript.some
                /\ IsTrimOf(run.transcript.v, run.got[i].body.value[1].content.v)
                /\ Len(ContentReqs) = 0
                /\ Len(ListingReqs) = i

\* padded inline content on the secondary base, returned trimmed
C2_Witness ==
    /\ FetchEnded
    /\ Len(run.got) = 2
    /\ HasInline(run.got[2])
    /\ run.got[2].body.value[1].content.v = <<" ", "a">>
    /\ run.got[2].body.value[1].transcriptContentUrl # ""
    /\ run.transcript = Some(<<"a">>)

-----------------------------------------------------------------------------
(* C3 *)

\* C3: the content requests go to the first descriptor's content URL in the
\* Accept order text/plain, text/vtt, application/vnd.ms-graph.vtt,
\* application/octet-stream, at most one per type; the loop goes on only
\* after a response that is not (200 with a body), and a response that is
\* makes fetch_transcript_by_id return that body decoded and trimmed, also
\* when it is the fourth.
C3_AcceptOrderFirstSuccess ==
    (FetchLive /\ Len(ContentReqs) > 0) =>
        /\ Len(ContentReqs) <= 4
        /\ \A k \in 1..Len(ContentReqs) :
             /\ ContentReqs[k].accept = AcceptOrder[k]
             /\ ContentReqs[k].arg =
                  run.got[Len(run.got)].body.value[1].transcriptContentUrl
        /\ run.pc = "download" => ~StreamSuccess(run.r)
        /\ run.pc = "summarize" => StreamSuccess(run.r)
        /\ StreamSuccess(run.r) =>
             /\ run.pc = "summarize"
             /\ run.error = ""
             /\ run.transcript.some
             /\ \E d \in SeqUpTo(Chars \cup {"uFFFD"}, Len(run.r.content.v)) :
                  /\ IsDecodeOf(d, run.r.content.v)
                  /\ IsTrimOf(run.transcript.v, d)

\* three failed attempts, then a padded body with an undecodable byte
C3_Witness ==
    /\ FetchEnded
    /\ Len(ContentReqs) = 4
    /\ run.r = StreamResponse(200, Some(<<" ", "xFF", "a">>))
    /\ run.transcript = Some(<<"uFFFD", "a">>)

-----------------------------------------------------------------------------
(* C4 *)

\* C4: when both listings yield no usable content, fetch_transcript_by_id
\* raises the no-transcript error, and the error carries exactly the two
\* (base, status) pairs observed, primary first.
C4_NoTranscriptCarriesBothStatuses ==
    (FetchLive /\ Len(run.got) = 2
        /\ NoUsableContent(run.got[1]) /\ NoUsableContent(run.got[2])) =>
        /\ run.pc = "done"
        /\ run.error = "NoTranscriptError"
        /\ run.tried =
             << <<"https://graph.microsoft.com/v1.0", run.got[1].status>>,
                <<"https://graph.microsoft.com/beta", run.got[2].status>> >>

\* both bases answer 200 with an empty collection
C4_Witness ==
    /\ run.error = "NoTranscriptError"
    /\ Len(run.got) = 2
    /\ run.got[1] = JsonResponse(200, Collection(<<>>))
    /\ run.got[2] = JsonResponse(200, Collection(<<>>))

-----------------------------------------------------------------------------
(* C5 *)

\* C5: resolve_meeting_id_from_link returns the id of the first element of
\* the collection when the lookup response is 200 with a non-empty
\* collection, and raises the resolution error, returning no id, otherwise.
C5_FirstIdOrResolutionError ==
    run.lookup.status # 0 =>
        IF run.lookup.status = 200 /\ HasItems(run.lookup)
        THEN /\ run.error = ""
             /\ run.pc = "list"
             /\ run.meeting_id = run.lookup.body.value[1].id
        ELSE /\ run.error = "ResolutionError"
             /\ run.pc = "done"
             /\ run.meeting_id = ""

\* a collection of two meetings: the first one's id is returned
C5_Witness ==
    /\ run.lookup.status = 200
    /\ HasItems(run.lookup)
    /\ Len(run.lookup.body.value) = 2
    /\ run.lookup.body.value[2].id # run.lookup.body.value[1].id
    /\ run.meeting_id = run.lookup.body.value[1].id

-----------------------------------------------------------------------------
(* C6 *)

\* C6 (as stated): every execution of fetch_transcript_by_id that ends in an
\* error it raises itself, a content-download failure included, has requested
\* both the primary and the secondary listing before.
C6_ExhaustAllBeforeAnyError ==
    (FetchEnded /\ run.error \in {"DownloadError", "NoTranscriptError"}) =>
        Len(ListingReqs) = 2

\* C6 (amended): the no-transcript error is raised only after both listings
\* were requested, primary then secondary; a primary listing response without
\* usable content (non-200 included) is not fatal, the run goes on to the
\* secondary; an execution that ends in an error after the primary listing
\* alone ended in a content-download failure or a transport exception.
C6_ExhaustBeforeNoTranscript ==
    FetchLive =>
        /\ run.error = "NoTranscriptError" =>
             /\ Len(ListingReqs) = 2
             /\ ListingReqs[1].base = "https://graph.microsoft.com/v1.0"
             /\ ListingReqs[2].base = "https://graph.microsoft.com/beta"
        /\ (Len(ListingReqs) = 1 /\ Len(run.got) = 1
                /\ NoUsableContent(run.got[1])) =>
             run.error = "" /\ run.pc = "list"
        /\ (run.error # "" /\ Len(ListingReqs) = 1) =>
             run.error \in {"DownloadError", "TransportError"}

\* the download from the primary fails: the secondary is never listed
C6_Witness ==
    /\ FetchEnded
    /\ run.error = "DownloadError"
    /\ Len(ListingReqs) = 1
    /\ Len(ContentReqs) = 4

-----------------------------------------------------------------------------
(* C7 *)

\* a write of the payload of request n to path was attempted, and when it
\* succeeded the file holds that payload
Dumped(path, n) ==
    \E k \in 1..Len(run.disk.log) :
        /\ run.disk.log[k].path = path
        /\ run.disk.log[k].of = n
        /\ run.disk.log[k].ok => run.disk.files[path] = File("json", n)

\* the position in reqs of the i-th listing request
ListingPos(i) ==
    CHOOSE n \in 1..Len(run.reqs) :
        /\ IsListingReq(run.reqs[n])
        /\ Len(SelectSeq(SubSeq(run.reqs, 1, n), IsListingReq)) = i

\* C7 (as stated, with every request answered and every write succeeding):
\* every invocation of fetch_transcript_by_id writes its fixed set of
\* artifacts, graph_transcripts_v1.json and graph_transcripts_beta.json.
C7_EveryInvocationWritesFixedSet ==
    (/\ FetchEnded
     /\ run.error # "TransportError"
     /\ \A k \in 1..Len(run.disk.log) : run.disk.log[k].ok) =>
        /\ run.disk.files["graph_transcripts_v1.json"].state = "json"
        /\ run.disk.files["graph_transcripts_beta.json"].state = "json"

\* C7 (amended): for every response the meeting lookup receives and for every
\* listing response fetch_transcript_by_id receives, whatever its status and
\* collection, the dump to the fixed file name of that request is attempted
\* before the operation returns or raises, and holds the response's payload
\* unless the write itself failed; the dumps attempted during the fetch are
\* exactly those of the listing responses received, so an invocation that
\* ends on the primary base leaves graph_transcripts_beta.json untouched.
C7_DumpPerResponseReceived ==
    /\ run.lookup.status # 0 => Dumped("graph_meeting_lookup.json", 1)
    /\ FetchLive =>
         /\ Len(run.got) >= 1 =>
              Dumped("graph_transcripts_v1.json", ListingPos(1))
         /\ Len(run.got) >= 2 =>
              Dumped("graph_transcripts_beta.json", ListingPos(2))
         /\ Len(SelectSeq(run.disk.log, IsDump)) = Len(run.got)
         /\ Len(run.got) < 2 =>
              run.disk.files["graph_transcripts_beta.json"].state = "absent"

\* both listings fail, the primary with a non-200 status: both dumps exist
C7_Witness ==
    /\ run.error = "NoTranscriptError"
    /\ run.got[1].status # 200
    /\ run.got[2].body = Collection(<<>>)
    /\ run.disk.files["graph_transcripts_v1.json"] = File("json", 2)
    /\ run.disk.files["graph_transcripts_beta.json"] = File("json", 3)

-----------------------------------------------------------------------------
(* C8 *)

\* C8: two executions that receive the same inputs and the same HTTP
\* responses end alike (same return values, same error) and issue the same
\* requests, whatever each one's artifact writes do.
C8_WriteFailuresInvisible == Outcome(run) = Outcome(twin)

\* a run that mailed the summary although every one of its writes failed
C8_Witness ==
    /\ run.sent
    /\ Len(run.disk.log) >= 3
    /\ \A k \in 1..Len(run.disk.log) : ~run.disk.log[k].ok

-----------------------------------------------------------------------------
(* C9 *)

\* C9: the steps of main() run in the order configuration check, token,
\* meeting-id resolution, transcript fetch, summary, mail; a step that fails
\* ends the run and no later step runs; sendMail is requested at most once
\* and only after every earlier step succeeded; a missing client/tenant id or
\* a failed token acquisition ends the run before any request is made.
C9_NoPartialSuccess ==
    /\ IsPrefix(run.steps, MainOrder)
    /\ run.error # "" => run.pc = "done" /\ ~run.sent
    /\ (run.pc = "done" /\ ~run.sent) => run.error # ""
    /\ (Len(run.steps) >= 1 /\ (run.client_id = "" \/ run.tenant_id = "")) =>
         /\ run.steps = <<"config">>
         /\ run.error # ""
         /\ run.reqs = <<>>
    /\ (Len(run.steps) >= 2 /\ run.token = "") =>
         /\ run.steps = <<"config", "token">>
         /\ run.error # ""
         /\ run.reqs = <<>>
    /\ (Len(run.steps) >= 3 /\ run.pc # "list" /\ run.meeting_id = "") =>
         Len(run.steps) = 3 /\ run.error # ""
    /\ (Len(run.steps) >= 4 /\ run.pc \notin {"list", "download"}
            /\ ~run.transcript.some) =>
         Len(run.steps) = 4 /\ run.error # ""
    /\ (Len(run.steps) >= 5 /\ run.summary_html = "") =>
         Len(run.steps) = 5 /\ run.error # ""
    /\ Len(MailReqs) <= 1
    /\ Len(MailReqs) = 1 =>
         /\ run.steps = MainOrder
         /\ run.reqs[Len(run.reqs)].ep = "sendMail"
         /\ run.client_id # "" /\ run.tenant_id # "" /\ run.token # ""
         /\ run.meeting_id # "" /\ run.transcript.some
         /\ run.summary_html # ""
    /\ run.sent => Len(MailReqs) = 1 /\ run.error = ""

\* the summary failed after a successful fetch: nothing was mailed
C9_Witness ==
    /\ run.error = "OpenAIError"
    /\ run.transcript.some
    /\ Len(run.reqs) >= 2
    /\ Len(MailReqs) = 0

-----------------------------------------------------------------------------
(* C10 *)

\* C10: when none of the four attempts yields 200 with a body, the download
\* fails with the download error after exactly four requests, one per Accept
\* type, and the error carries what the fourth attempt observed, a non-200
\* status or a transport exception.
C10_DownloadErrorCarriesLast ==
    FetchLive =>
        /\ run.error = "DownloadError" =>
             /\ Len(ContentReqs) = 4
             /\ \A k \in 1..4 : ContentReqs[k].accept = AcceptOrder[k]
             /\ ~StreamSuccess(run.r)
             /\ run.last_err.kind = IF run.r.exc THEN "exception" ELSE "http"
             /\ ~run.r.exc => run.last_err.status = run.r.status
        /\ (Len(ContentReqs) = 4 /\ ~StreamSuccess(run.r)) =>
             run.error = "DownloadError" /\ run.pc = "done"
        /\ (Len(ContentReqs) \in 1..3 /\ ~StreamSuccess(run.r)) =>
             run.error = "" /\ run.pc = "download"

\* the fourth attempt dies of a transport exception
C10_Witness ==
    /\ run.error = "DownloadError"
    /\ Len(ContentReqs) = 4
    /\ run.r.exc
    /\ run.last_err.kind = "exception"

====
